---- MODULE Spec2Model ----
(***************************************************************************)
(* Model of fix_test_files.py: the regular-expression rewriters, the file  *)
(* processor (read / marker guard / rewrite / overwrite) and the batch     *)
(* driver (glob, exclusion set, cap of five).                              *)
(*                                                                         *)
(* Text is a sequence of lexemes.  Every literal piece of a pattern or of  *)
(* a replacement is a lexeme of its own, each "{", "}" and "'" that a      *)
(* pattern can reach is a lexeme of its own, and a run of white space next *)
(* to a brace is a lexeme of its own, so a pattern matches the lexeme      *)
(* sequence exactly where the regular expression matches the characters.   *)
(* A file path is a sequence of characters, "/" and the lexeme ".test.ts". *)
(***************************************************************************)
EXTENDS Integers, Sequences, FiniteSets, TLC

(***************************************************************************)
(* Bounds of the model.                                                    *)
(***************************************************************************)
MaxFrags == 2
MaxNameLen == 3
MaxEligible == 8
MaxRuns == 2

Min(a, b) == IF a < b THEN a ELSE b

Range(s) == {s[k] : k \in 1..Len(s)}

(***************************************************************************)
(* Lexemes with a special role in the patterns.                            *)
(***************************************************************************)
ImportFull == "import axios, { AxiosInstance, AxiosResponse } from 'axios';"
ImportInstance == "import { AxiosInstance } from 'axios';"
Marker == "createEntityTestSetup"
TestSuffix == ".test.ts"

\* import_insertion, lines 22-29
import_insertion ==
  << "import {\n  ", Marker,
     ",\n  createMockItemResponse,\n  createMockItemsResponse,\n  createMockDeleteResponse,\n  resetAllMocks,\n  EntityTestSetup,\n",
     "} from '../helpers/mockHelper';" >>

\* the lexemes that contain a "}" (outside the class [^}])
HasCloseBrace == {"}", ImportFull, ImportInstance, "} from '../helpers/mockHelper';"}
\* the lexemes that contain a "'" (outside the class [^'])
HasQuote == {"'", ImportFull, ImportInstance, "} from '../helpers/mockHelper';"}
\* the lexemes made of white space only (the class \s)
WhiteSpace == {" ", "\n", "\n  ", "\n      ", "\n        "}
\* the lexemes made of decimal digits only (the class \d)
Digits == {"0", "1", "25"}

InClass(t, cls) ==
  CASE cls = "s" -> t \in WhiteSpace
    [] cls = "d" -> t \in Digits
    [] cls = "nobrace" -> t \notin HasCloseBrace
    [] cls = "noquote" -> t \notin HasQuote
    [] OTHER -> FALSE

(***************************************************************************)
(* Patterns: a sequence of elements, a literal lexeme or a greedy          *)
(* repetition of a class (min = 0 for *, 1 for +).                         *)
(***************************************************************************)
Lit(t) == [k |-> "lit", t |-> t, min |-> 1]
Star(cls) == [k |-> "rep", t |-> cls, min |-> 0]
Plus(cls) == [k |-> "rep", t |-> cls, min |-> 1]
Lits(ts) == [j \in 1..Len(ts) |-> Lit(ts[j])]

\* Replacement templates: a lexeme, or the text matched by pattern element g.
L(t) == [g |-> 0, t |-> t]
G(g) == [g |-> g, t |-> ""]
Ls(ts) == [j \in 1..Len(ts) |-> L(ts[j])]

\* number of consecutive lexemes of class cls in s from position pos
RECURSIVE RunLen(_, _, _)
RunLen(s, pos, cls) ==
  IF pos <= Len(s) /\ InClass(s[pos], cls)
  THEN 1 + RunLen(s, pos + 1, cls)
  ELSE 0

\* MatchFrom(pat, s, pos, j): match elements j.. of pat at position pos of s.
\* The result is <<>> when there is no match, and otherwise the start
\* positions of elements j..Len(pat) followed by the position after the match.
\* A repetition takes the longest run first and gives lexemes back until the
\* rest of the pattern matches (greedy, backtracking).
RECURSIVE MatchFrom(_, _, _, _), TryRep(_, _, _, _, _)
MatchFrom(pat, s, pos, j) ==
  IF j > Len(pat) THEN <<pos>>
  ELSE IF pat[j].k = "lit"
  THEN IF pos <= Len(s) /\ s[pos] = pat[j].t
       THEN LET r == MatchFrom(pat, s, pos + 1, j + 1)
            IN IF r = <<>> THEN <<>> ELSE <<pos>> \o r
       ELSE <<>>
  ELSE TryRep(pat, s, pos, j, RunLen(s, pos, pat[j].t))

TryRep(pat, s, pos, j, n) ==
  IF n < pat[j].min THEN <<>>
  ELSE LET r == MatchFrom(pat, s, pos + n, j + 1)
       IN IF r # <<>> THEN <<pos>> \o r
          ELSE TryRep(pat, s, pos, j, n - 1)

\* the replacement text of one match with element boundaries b
RECURSIVE Expand(_, _, _, _)
Expand(repl, s, b, k) ==
  IF k > Len(repl) THEN <<>>
  ELSE (IF repl[k].g = 0
        THEN <<repl[k].t>>
        ELSE SubSeq(s, b[repl[k].g], b[repl[k].g + 1] - 1))
       \o Expand(repl, s, b, k + 1)

\* re.sub(pat, repl, s): every leftmost non-overlapping match, left to right
RECURSIVE SubFrom(_, _, _, _)
SubFrom(pat, repl, s, pos) ==
  IF pos > Len(s) THEN <<>>
  ELSE LET b == MatchFrom(pat, s, pos, 1)
       IN IF b = <<>>
          THEN <<s[pos]>> \o SubFrom(pat, repl, s, pos + 1)
          ELSE Expand(repl, s, b, 1) \o SubFrom(pat, repl, s, b[Len(b)])

re_sub(pat, repl, s) == SubFrom(pat, repl, s, 1)

(***************************************************************************)
(* Name Deriver.                                                           *)
(***************************************************************************)
UpperOf(c) ==
  CASE c = "a" -> "A" [] c = "b" -> "B" [] c = "c" -> "C" [] c = "d" -> "D"
    [] c = "e" -> "E" [] c = "g" -> "G" [] c = "i" -> "I" [] c = "s" -> "S"
    [] c = "t" -> "T" [] c = "w" -> "W"
    [] OTHER -> c

LowerOf(c) ==
  CASE c = "A" -> "a" [] c = "B" -> "b" [] c = "C" -> "c" [] c = "D" -> "d"
    [] c = "E" -> "e" [] c = "G" -> "g" [] c = "I" -> "i" [] c = "S" -> "s"
    [] c = "T" -> "t" [] c = "W" -> "w"
    [] OTHER -> c

\* str.lower()
lower(s) == [j \in 1..Len(s) |-> LowerOf(s[j])]

\* str.capitalize(): first character upper-cased, the rest lower-cased
capitalize(s) ==
  IF s = <<>> THEN <<>> ELSE <<UpperOf(s[1])>> \o lower(Tail(s))

\* os.path.basename: the part after the last "/"
RECURSIVE basename(_)
basename(path) ==
  IF \E j \in 1..Len(path) : path[j] = "/"
  THEN basename(Tail(path))
  ELSE path

\* str.replace(old, ''), old a single lexeme: every occurrence is removed
remove_all(s, old) == SelectSeq(s, LAMBDA t : t # old)

get_entity_name_from_file(filepath) ==
  capitalize(remove_all(basename(filepath), TestSuffix))

(***************************************************************************)
(* Import Rewriter.                                                        *)
(***************************************************************************)
fix_imports(content) ==
  LET c1 == re_sub(<<Lit(ImportFull)>>, <<L(ImportInstance)>>, content)
  IN re_sub(<<Lit(ImportInstance)>>,
            <<G(1), L("\n")>> \o Ls(import_insertion), c1)

(***************************************************************************)
(* Call-Site Rewriter.                                                     *)
(***************************************************************************)
fix_method_calls(content, entity_name) ==
  LET lower_entity == lower(entity_name)
      c1 == re_sub(<<Lit("await ")>> \o Lits(lower_entity) \o <<Lit(".")>>,
                   Ls(<<"await ", "setup.", "entity.">>), content)
      c2 == re_sub(<<Lit("mockAxios.")>>, Ls(<<"setup.", "mockAxios.">>), c1)
      c3 == re_sub(Lits(<<"expect(", "mockAxios.">>),
                   Ls(<<"expect(", "setup.", "mockAxios.">>), c2)
  IN re_sub(<<Lit("pageSize: "), Plus("d")>>, <<L("MaxRecords: "), G(2)>>, c3)

(***************************************************************************)
(* Response-Shape Rewriter.                                                *)
(***************************************************************************)
\* mockAxios\.<verb>\.mockResolvedValueOnce\(\{\s*data: \{<body>\}[^}]+
MockHead(verb, body) ==
  Lits(<<"mockAxios.", verb, ".mockResolvedValueOnce(", "{">>)
  \o <<Star("s")>> \o Lits(<<"data: ", "{">> \o body \o <<"}">>)
  \o <<Plus("nobrace")>>

\* \}\);
MockTail == Lits(<<"}", ");">>)

\* setup.mockAxios.<verb>.mockResolvedValueOnce(\n        <call>\n      );
MockRepl(verb, call) ==
  Ls(<<"setup.", "mockAxios.", verb, ".mockResolvedValueOnce(", "\n        ">>
     \o call \o <<"\n      ", ");">>)

\* the seven substitutions of lines 75-120, in order
MockRules ==
  << [pat |-> MockHead("get", <<" items: mockData ">>) \o MockTail,
      repl |-> MockRepl("post", <<"createMockItemsResponse(", "mockData", ")">>)],
     [pat |-> MockHead("get", <<" items: [] ">>) \o MockTail,
      repl |-> MockRepl("post", <<"createMockItemsResponse(", "[]", ")">>)],
     [pat |-> MockHead("get", <<" item: mockData ">>) \o MockTail,
      repl |-> MockRepl("get", <<"createMockItemResponse(", "mockData", ")">>)],
     [pat |-> MockHead("post", <<" item: mockResponse ">>)
                \o <<Lit("status: 201"), Plus("nobrace")>> \o MockTail,
      repl |-> MockRepl("post", <<"createMockItemResponse(", "mockResponse", ", 201", ")">>)],
     [pat |-> MockHead("put", <<" item: mockResponse ">>) \o MockTail,
      repl |-> MockRepl("put", <<"createMockItemResponse(", "mockResponse", ")">>)],
     [pat |-> MockHead("patch", <<" item: mockResponse ">>) \o MockTail,
      repl |-> MockRepl("patch", <<"createMockItemResponse(", "mockResponse", ")">>)],
     [pat |-> MockHead("delete", <<>>) \o MockTail,
      repl |-> MockRepl("delete", <<"createMockDeleteResponse(", ")">>)] >>

\* MockRules with the verb of the empty-list rule left as get
MockRulesEmptyListGet ==
  [MockRules EXCEPT ![2].repl =
     MockRepl("get", <<"createMockItemsResponse(", "[]", ")">>)]

\* content = re.sub(...) for each rule in turn
RECURSIVE apply_rules(_, _, _)
apply_rules(rules, k, content) ==
  IF k > Len(rules) THEN content
  ELSE apply_rules(rules, k + 1, re_sub(rules[k].pat, rules[k].repl, content))

fix_mock_responses_empty_list_get(content) ==
  apply_rules(MockRulesEmptyListGet, 1, content)

fix_mock_responses(content) == apply_rules(MockRules, 1, content)

(***************************************************************************)
(* Assertion Rewriter.                                                     *)
(***************************************************************************)
\* line 128-131
expect_get_to_post(content) ==
  re_sub(Lits(<<"expect(", "setup.", "mockAxios.", "get",
                ").toHaveBeenCalledWith(", "'">>)
           \o <<Plus("noquote")>>
           \o Lits(<<"/query", "'", ", ", "{">>) \o <<Star("s")>>
           \o Lits(<<"params: ", "{">>) \o <<Star("s")>>
           \o <<Lit("filter:")>>,
         Ls(<<"expect(", "setup.", "mockAxios.", "post",
              ").toHaveBeenCalledWith(", "'">>)
           \o <<G(7)>>
           \o Ls(<<"/query", "'", ", ", "{", "\n        ", "filter:">>),
         content)

\* line 134
remove_params_wrapper(content) ==
  re_sub(Lits(<<"params: ", "{">>) \o <<Star("s")>> \o <<Lit("filter:")>>,
         <<L("filter:")>>, content)

\* line 135
close_one_level_higher(content) ==
  re_sub(<<Lit("}"), Star("s"), Lit("}"), Lit(");")>>, Ls(<<"}", ");">>), content)

\* fix_test_expectations without the substitution of line 135
fix_test_expectations_keep_braces(content) ==
  remove_params_wrapper(expect_get_to_post(content))

fix_test_expectations(content) ==
  close_one_level_higher(remove_params_wrapper(expect_get_to_post(content)))

(***************************************************************************)
(* File Processor: the rewriting part, lines 151-157.                      *)
(***************************************************************************)
\* the guard of line 147 never taken
never_processed(content) == FALSE

\* 'createEntityTestSetup' in content, line 147
already_processed(content) == \E j \in 1..Len(content) : content[j] = Marker

apply_fixes(filepath, content) ==
  LET entity_class == get_entity_name_from_file(filepath)
  IN fix_test_expectations(
       fix_mock_responses(
         fix_method_calls(fix_imports(content), entity_class)))

(***************************************************************************)
(* Input texts: the statements of an entity test file, as lexemes.         *)
(***************************************************************************)
\* <qual>mockAxios.<verb>.mockResolvedValueOnce({ data: {<body>}<rest>});
MockCall(qual, verb, body, rest) ==
  qual \o <<"mockAxios.", verb, ".mockResolvedValueOnce(", "{", " ", "data: ", "{">>
       \o body \o <<"}">> \o rest \o <<"}", ");", "\n">>

RestStatus200 == <<", ", "status: 200", " ">>
RestStatus201 == <<", ", "status: 201", " ">>
RestHeaders == <<", ", "headers: ", "{", "}", " ">>

\* expect(<qual>mockAxios.get).toHaveBeenCalledWith('/widgets/query', { params: { filter:<x>} }<close>
ExpectCall(qual, x, close) ==
  <<"expect(">> \o qual
    \o <<"mockAxios.", "get", ").toHaveBeenCalledWith(", "'", "/widgets", "/query",
         "'", ", ", "{", " ", "params: ", "{", " ", "filter:">>
    \o x \o <<"}", " ", "}", close>>

FilterX == <<" X ">>
FilterObject == <<" ", "{", " id: 1 ", "}", " ">>

Bare == <<>>
Qualified == <<"setup.">>

Fragments ==
  { <<ImportFull, "\n">>,
    <<ImportInstance, "\n">>,
    <<"setup = ", Marker, "(Widgets);", "\n">>,
    MockCall(Bare, "get", <<" items: mockData ">>, RestStatus200),
    MockCall(Bare, "get", <<" items: [] ">>, RestStatus200),
    MockCall(Qualified, "get", <<" items: mockData ">>, RestStatus200),
    MockCall(Bare, "get", <<" items: mockData ">>, RestHeaders),
    MockCall(Bare, "get", <<" item: mockData ">>, RestStatus200),
    MockCall(Bare, "post", <<" item: mockResponse ">>, RestStatus201),
    MockCall(Bare, "put", <<" item: mockResponse ">>, RestStatus200),
    MockCall(Bare, "patch", <<" item: mockResponse ">>, RestStatus200),
    MockCall(Bare, "delete", <<>>, RestStatus200),
    ExpectCall(Bare, FilterX, ");"),
    ExpectCall(Qualified, FilterX, ");"),
    ExpectCall(Qualified, FilterX, ")"),
    ExpectCall(Qualified, FilterObject, ");"),
    <<"await ", "w", "i", "d", "g", "e", "t", "s", ".", "list(", "{", " ",
      "pageSize: ", "25", " ", "}", ");", "\n">> }

RECURSIVE Flatten(_)
Flatten(ss) == IF ss = <<>> THEN <<>> ELSE Head(ss) \o Flatten(Tail(ss))

\* every text of at most MaxFrags statements
Texts ==
  { Flatten(fs) : fs \in UNION { [1..n -> Fragments] : n \in 0..MaxFrags } }

(***************************************************************************)
(* Batch Driver: the directory and the exclusion set.                      *)
(***************************************************************************)
\* test_dir, line 168
test_dir == <<"test", "/", "entities", "/">>

\* fixed_files, lines 171-178
fixed_files ==
  { <<"a", "c", "t", "i", "o", "n", "t", "y", "p", "e", "s", TestSuffix>>,
    <<"p", "r", "i", "c", "e", "l", "i", "s", "t", "s", "e", "r", "v", "i", "c", "e", "s", TestSuffix>>,
    <<"t", "i", "c", "k", "e", "t", "c", "h", "a", "r", "g", "e", "s", TestSuffix>>,
    <<"t", "i", "m", "e", "o", "f", "f", "r", "e", "q", "u", "e", "s", "t", "s", TestSuffix>>,
    <<"c", "o", "m", "p", "a", "n", "i", "e", "s", TestSuffix>>,
    <<"q", "u", "o", "t", "e", "s", TestSuffix>> }

\* the number of files one run processes, line 186
BatchCap == 5

\* str(test_file): the path of a directory entry
PathOf(name) == test_dir \o name

\* test_dir.glob('*.test.ts'): the entries whose name ends in .test.ts
glob(entries) ==
  SelectSeq(entries, LAMBDA n : Len(n) >= 1 /\ n[Len(n)] = TestSuffix)

\* line 181 without its condition
keep_all(names) == names

\* [f for f in ... if f.name not in fixed_files], line 181
not_fixed(names) == SelectSeq(names, LAMBDA n : n \notin fixed_files)

\* line 186 without the slice
all_files(files) == files

\* test_files[:5], line 186
first_five(files) == SubSeq(files, 1, Min(BatchCap, Len(files)))

(***************************************************************************)
(* The directories of the model: any subset of Universe, listed in one of  *)
(* two orders (glob promises no order).                                    *)
(***************************************************************************)
Alpha == <<"a", "b", "c", "d", "e", "g", "i", "s", "t", "w", "A", "B">>

EligibleName(k) == <<"e", Alpha[k], TestSuffix>>
Eligibles == [k \in 1..MaxEligible |-> EligibleName(k)]

WidgetsName == <<"w", "i", "d", "g", "e", "t", "s", TestSuffix>>
ActionTypesName == <<"a", "c", "t", "i", "o", "n", "t", "y", "p", "e", "s", TestSuffix>>
QuotesName == <<"q", "u", "o", "t", "e", "s", TestSuffix>>
NotesName == <<"n", "o", "t", "e", "s", ".md">>

Universe ==
  <<ActionTypesName>> \o SubSeq(Eligibles, 1, 3) \o <<QuotesName, NotesName>>
    \o SubSeq(Eligibles, 4, MaxEligible)

\* an unmigrated file with the axios import, a migrated file, and an
\* unmigrated file without the import
BatchContents ==
  << <<ImportFull, "\n", "mockAxios.", "reset();", "\n">>,
     <<"setup = ", Marker, "(Widgets);", "\n">>,
     <<"mockAxios.", "reset();", "\n">> >>

ContentOfEntry(k) == BatchContents[(k % 3) + 1]

RECURSIVE PickFrom(_, _)
PickFrom(k, S) ==
  IF k > Len(Universe) THEN <<>>
  ELSE (IF k \in S THEN <<Universe[k]>> ELSE <<>>) \o PickFrom(k + 1, S)

Reverse(s) == [j \in 1..Len(s) |-> s[Len(s) + 1 - j]]

IndexIn(s, x) == CHOOSE k \in 1..Len(s) : s[k] = x

(***************************************************************************)
(* State.                                                                  *)
(***************************************************************************)
VARIABLES
  dir,          \* the entries of test/entities, in glob's order
  disk,         \* entry name -> content of the file
  run,          \* number of the current run of the script
  pc,           \* position of the script
  test_files,   \* main's list, line 181
  i,            \* 1-based index of the loop of line 186
  content,      \* process_file's local, lines 144-157
  calls,        \* the paths passed to process_file in this run, in order
  openedR,      \* the names opened for reading in this run
  openedW,      \* the names opened for writing in this run
  readContent,  \* name -> the content f.read() returned in this run
  returned,     \* name -> content on disk when its process_file returned
  startDisk,    \* disk when this run started
  prevDisk,     \* disk when the previous run ended
  ioError,      \* 0, or the loop index at which an I/O error was raised
  fn,           \* the function applied on its own, "none" before
  arg,          \* its argument
  res           \* its result

vars == <<dir, disk, run, pc, test_files, i, content, calls, openedR, openedW,
          readContent, returned, startDisk, prevDisk, ioError, fn, arg, res>>

scriptVars == <<dir, disk, run, pc, test_files, i, content, calls, openedR,
                openedW, readContent, returned, startDisk, prevDisk, ioError>>

fnVars == <<fn, arg, res>>

EmptyMap == [n \in {} |-> <<>>]

MapPut(f, n, v) == [m \in DOMAIN f \cup {n} |-> IF m = n THEN v ELSE f[m]]

InitRun(d, dk) ==
  /\ dir = d
  /\ disk = dk
  /\ run = 1
  /\ pc = "start"
  /\ test_files = <<>>
  /\ i = 0
  /\ content = <<>>
  /\ calls = <<>>
  /\ openedR = {}
  /\ openedW = {}
  /\ readContent = EmptyMap
  /\ returned = EmptyMap
  /\ startDisk = dk
  /\ prevDisk = dk
  /\ ioError = 0
  /\ fn = "none"
  /\ arg = <<>>
  /\ res = <<>>

\* a directory of several small files
InitBatch ==
  \E S \in SUBSET (1..Len(Universe)), rev \in BOOLEAN :
    LET d == IF rev THEN Reverse(PickFrom(1, S)) ELSE PickFrom(1, S)
    IN InitRun(d, [n \in Range(d) |-> ContentOfEntry(IndexIn(Universe, n))])

\* a directory of one file with any of the input texts
InitFile ==
  \E t \in Texts : InitRun(<<WidgetsName>>, [n \in {WidgetsName} |-> t])

Init == InitBatch \/ InitFile

(***************************************************************************)
(* main, lines 165-190.                                                    *)
(***************************************************************************)
CurName == first_five(test_files)[i]

\* the exception caught per file and the loop continued
OnIOErrorContinue(idx) == [pc |-> "loop", i |-> idx + 1]

\* an exception raised in process_file is caught nowhere (lines 186-187,
\* 192-193): the script ends at loop index idx
OnIOError(idx) == [pc |-> "aborted", i |-> idx]

Raise ==
  /\ pc' = OnIOError(i).pc
  /\ i' = OnIOError(i).i
  /\ ioError' = i

\* lines 168-183
MainEnumerate ==
  /\ pc = "start"
  /\ test_files' = not_fixed(glob(dir))
  /\ i' = 1
  /\ pc' = "loop"
  /\ UNCHANGED <<dir, disk, run, content, calls, openedR, openedW, readContent,
                 returned, startDisk, prevDisk, ioError, fnVars>>

\* line 186-187: the next file of the batch is passed to process_file
LoopCall ==
  /\ pc = "loop"
  /\ i <= Len(first_five(test_files))
  /\ calls' = Append(calls, PathOf(CurName))
  /\ pc' = "open_r"
  /\ UNCHANGED <<dir, disk, run, test_files, i, content, openedR, openedW,
                 readContent, returned, startDisk, prevDisk, ioError, fnVars>>

\* line 186: the batch is exhausted
LoopEnd ==
  /\ pc = "loop"
  /\ i > Len(first_five(test_files))
  /\ pc' = "done"
  /\ UNCHANGED <<dir, disk, run, test_files, i, content, calls, openedR, openedW,
                 readContent, returned, startDisk, prevDisk, ioError, fnVars>>

(***************************************************************************)
(* process_file, lines 139-163.                                            *)
(***************************************************************************)
\* line 143: open(filepath, 'r')
OpenRead ==
  /\ pc = "open_r"
  /\ openedR' = openedR \cup {CurName}
  /\ pc' = "read"
  /\ UNCHANGED <<dir, disk, run, test_files, i, content, calls, openedW,
                 readContent, returned, startDisk, prevDisk, ioError, fnVars>>

OpenReadFail ==
  /\ pc = "open_r"
  /\ Raise
  /\ UNCHANGED <<dir, disk, run, test_files, content, calls, openedR, openedW,
                 readContent, returned, startDisk, prevDisk, fnVars>>

\* line 144: content = f.read()
Read ==
  /\ pc = "read"
  /\ content' = disk[CurName]
  /\ readContent' = MapPut(readContent, CurName, disk[CurName])
  /\ pc' = "check"
  /\ UNCHANGED <<dir, disk, run, test_files, i, calls, openedR, openedW,
                 returned, startDisk, prevDisk, ioError, fnVars>>

ReadFail ==
  /\ pc = "read"
  /\ Raise
  /\ UNCHANGED <<dir, disk, run, test_files, content, calls, openedR, openedW,
                 readContent, returned, startDisk, prevDisk, fnVars>>

\* lines 147-149: the early return
Skip ==
  /\ pc = "check"
  /\ already_processed(content)
  /\ returned' = MapPut(returned, CurName, disk[CurName])
  /\ i' = i + 1
  /\ pc' = "loop"
  /\ UNCHANGED <<dir, disk, run, test_files, content, calls, openedR, openedW,
                 readContent, startDisk, prevDisk, ioError, fnVars>>

\* lines 151-157
ApplyFixes ==
  /\ pc = "check"
  /\ ~already_processed(content)
  /\ content' = apply_fixes(PathOf(CurName), content)
  /\ pc' = "open_w"
  /\ UNCHANGED <<dir, disk, run, test_files, i, calls, openedR, openedW,
                 readContent, returned, startDisk, prevDisk, ioError, fnVars>>

\* line 160: open(filepath, 'w') truncates the file
OpenWrite ==
  /\ pc = "open_w"
  /\ disk' = [disk EXCEPT ![CurName] = <<>>]
  /\ openedW' = openedW \cup {CurName}
  /\ pc' = "write"
  /\ UNCHANGED <<dir, run, test_files, i, content, calls, openedR,
                 readContent, returned, startDisk, prevDisk, ioError, fnVars>>

OpenWriteFail ==
  /\ pc = "open_w"
  /\ Raise
  /\ UNCHANGED <<dir, disk, run, test_files, content, calls, openedR, openedW,
                 readContent, returned, startDisk, prevDisk, fnVars>>

\* line 161 and the close of the with block: the whole text is on disk
Write ==
  /\ pc = "write"
  /\ disk' = [disk EXCEPT ![CurName] = content]
  /\ returned' = MapPut(returned, CurName, content)
  /\ i' = i + 1
  /\ pc' = "loop"
  /\ UNCHANGED <<dir, run, test_files, content, calls, openedR, openedW,
                 readContent, startDisk, prevDisk, ioError, fnVars>>

\* the write or the flush fails: some prefix of the text is on disk
WriteFail ==
  /\ pc = "write"
  /\ \E n \in 0..Len(content) :
       disk' = [disk EXCEPT ![CurName] = SubSeq(content, 1, n)]
  /\ Raise
  /\ UNCHANGED <<dir, run, test_files, content, calls, openedR, openedW,
                 readContent, returned, startDisk, prevDisk, fnVars>>

\* the script is started again after a run that ended normally
Rerun ==
  /\ pc = "done"
  /\ run < MaxRuns
  /\ run' = run + 1
  /\ pc' = "start"
  /\ test_files' = <<>>
  /\ i' = 0
  /\ content' = <<>>
  /\ calls' = <<>>
  /\ openedR' = {}
  /\ openedW' = {}
  /\ readContent' = EmptyMap
  /\ returned' = EmptyMap
  /\ startDisk' = disk
  /\ prevDisk' = disk
  /\ UNCHANGED <<dir, disk, ioError, fnVars>>

Next ==
  \/ MainEnumerate
  \/ LoopCall
  \/ LoopEnd
  \/ OpenRead
  \/ OpenReadFail
  \/ Read
  \/ ReadFail
  \/ Skip
  \/ ApplyFixes
  \/ OpenWrite
  \/ OpenWriteFail
  \/ Write
  \/ WriteFail
  \/ Rerun

Spec == Init /\ [][Next]_vars

(***************************************************************************)
(* The functions applied on their own to one argument.                     *)
(***************************************************************************)
NameAlphabet == {"a", "B", "C", "1"}

\* base names: the two of the documentation, and every short one
Bases ==
  { <<"w", "i", "d", "g", "e", "t", "s">>, <<"a", "B", "C", "t", "e", "s", "t">> }
    \cup UNION { [1..n -> NameAlphabet] : n \in 1..MaxNameLen }

\* a base name with the test suffix, alone or under the test directory
Paths == { d \o b \o <<TestSuffix>> : d \in {<<>>, test_dir}, b \in Bases }

InitFn ==
  /\ dir = <<>>
  /\ disk = EmptyMap
  /\ run = 1
  /\ pc = "idle"
  /\ test_files = <<>>
  /\ i = 0
  /\ content = <<>>
  /\ calls = <<>>
  /\ openedR = {}
  /\ openedW = {}
  /\ readContent = EmptyMap
  /\ returned = EmptyMap
  /\ startDisk = EmptyMap
  /\ prevDisk = EmptyMap
  /\ ioError = 0
  /\ fn = "none"
  /\ arg \in Paths \cup Texts
  /\ res = <<>>

Apply(name, result) ==
  /\ pc = "idle"
  /\ fn = "none"
  /\ fn' = name
  /\ res' = result
  /\ UNCHANGED <<arg, scriptVars>>

CallGetEntityName ==
  /\ arg \in Paths
  /\ Apply("get_entity_name_from_file", get_entity_name_from_file(arg))

CallFixImports ==
  /\ arg \in Texts
  /\ Apply("fix_imports", fix_imports(arg))

CallFixMethodCalls ==
  /\ arg \in Texts
  /\ Apply("fix_method_calls",
           fix_method_calls(arg, get_entity_name_from_file(PathOf(WidgetsName))))

CallFixMockResponses ==
  /\ arg \in Texts
  /\ Apply("fix_mock_responses", fix_mock_responses(arg))

CallFixTestExpectations ==
  /\ arg \in Texts
  /\ Apply("fix_test_expectations", fix_test_expectations(arg))

NextFn ==
  \/ CallGetEntityName
  \/ CallFixImports
  \/ CallFixMethodCalls
  \/ CallFixMockResponses
  \/ CallFixTestExpectations

SpecFn == InitFn /\ [][NextFn]_vars

(***************************************************************************)
(* Vocabulary of the properties, written without the operators above.      *)
(***************************************************************************)
HasMarker(c) == \E j \in 1..Len(c) : c[j] = Marker

\* the eligible entries in enumeration order
EligibleEntries ==
  SelectSeq(dir, LAMBDA n : n[Len(n)] = TestSuffix /\ n \notin fixed_files)

\* the entry whose path was passed to the j-th call of process_file
CalledName(j) == CHOOSE n \in Range(dir) : test_dir \o n = calls[j]

Called == {n \in Range(dir) : \E j \in 1..Len(calls) : test_dir \o n = calls[j]}

NoWhiteSpace(c) == SelectSeq(c, LAMBDA t : t \notin WhiteSpace)

\* setup.setup.mockAxios. occurs in c
DoublyQualified(c) ==
  \E j \in 1..Len(c) - 2 :
    c[j] = "setup." /\ c[j + 1] = "setup." /\ c[j + 2] = "mockAxios."

\* every mockAxios. of c is bare
AllBare(c) ==
  \A j \in 2..Len(c) : c[j] = "mockAxios." => c[j - 1] # "setup."

\* expect(setup.mockAxios.post).toHaveBeenCalledWith('/widgets/query', {<gap>filter:<x><closing>
ExpectPost(gap, x, closing) ==
  <<"expect(", "setup.", "mockAxios.", "post", ").toHaveBeenCalledWith(", "'",
    "/widgets", "/query", "'", ", ", "{">> \o gap \o <<"filter:">> \o x \o closing

\* setup.mockAxios.post.mockResolvedValueOnce(\n        createMockItemsResponse(<v>)\n      );
PostItems(v) ==
  <<"setup.", "mockAxios.", "post", ".mockResolvedValueOnce(", "\n        ",
    "createMockItemsResponse(", v, ")", "\n      ", ");", "\n">>

MatchesSomewhere(pat, s) == \E pos \in 1..Len(s) : MatchFrom(pat, s, pos, 1) # <<>>

(***************************************************************************)
(* Properties.                                                             *)
(***************************************************************************)

\* C1: a second run of process_file on a file leaves the content the first
\* run left: when the second run of the script has ended, every file is as
\* the first run left it.
C1_Idempotent ==
  (run >= 2 /\ pc = "done") => disk = prevDisk

\* C2: after an I/O error in process_file the file being processed has the
\* content it had when the run started.
C2_FileLeftInPreRunState ==
  ioError # 0 =>
    disk[CalledName(Len(calls))] = startDisk[CalledName(Len(calls))]

\* C3: the derived name is the base name with its first character
\* upper-cased and every other character unchanged.
C3_OnlyFirstCharacterChanged ==
  fn = "get_entity_name_from_file" =>
    LET n == basename(arg)
        b == SubSeq(n, 1, Len(n) - 1)
    IN res = <<UpperOf(b[1])>> \o Tail(b)

\* C4: a file whose content at read time contains the marker is never
\* opened for writing, keeps its content, and its process_file does not end
\* in an error.
C4_MarkerSkip ==
  \A n \in DOMAIN readContent :
    HasMarker(readContent[n]) =>
      /\ n \notin openedW
      /\ disk[n] = readContent[n]
      /\ (ioError # 0 => CalledName(Len(calls)) # n)
      /\ (pc \in {"loop", "done"} => n \in DOMAIN returned)

C4_Witness ==
  /\ pc = "done"
  /\ \E n \in DOMAIN returned : HasMarker(readContent[n]) /\ n \in openedR

\* C5: an I/O error on the k-th file ends the run at once: the files before
\* it keep what their process_file left, and no other file is read, written
\* or passed to process_file.
C5_AbortOnIOError ==
  ioError # 0 =>
    /\ pc = "aborted"
    /\ Len(calls) = ioError
    /\ \A j \in 1..Len(calls) - 1 :
         /\ CalledName(j) \in DOMAIN returned
         /\ disk[CalledName(j)] = returned[CalledName(j)]
    /\ \A n \in Range(dir) \ Called :
         /\ n \notin openedR \cup openedW
         /\ disk[n] = startDisk[n]

C5_Witness ==
  /\ ioError = 3
  /\ pc = "aborted"
  /\ CalledName(1) \in openedW
  /\ Len(EligibleEntries) >= 5

\* C6: a run that ends normally has called process_file on exactly the
\* first min(n, 5) eligible files, once each and in order; at any time the
\* calls are a prefix of those, and the files after the fifth are neither
\* read nor written.
C6_BatchCap ==
  /\ Len(calls) <= 5
  /\ Len(calls) <= Len(EligibleEntries)
  /\ \A j \in 1..Len(calls) : calls[j] = test_dir \o EligibleEntries[j]
  /\ pc = "done" =>
       Len(calls) = IF Len(EligibleEntries) < 5 THEN Len(EligibleEntries) ELSE 5
  /\ \A j \in 6..Len(EligibleEntries) :
       /\ EligibleEntries[j] \notin openedR \cup openedW
       /\ disk[EligibleEntries[j]] = startDisk[EligibleEntries[j]]

C6_Witness ==
  /\ pc = "done"
  /\ Len(EligibleEntries) = 8
  /\ Range(dir) \cap fixed_files = {}
  /\ Len(calls) = 5
  /\ \A j \in 6..8 : disk[EligibleEntries[j]] = startDisk[EligibleEntries[j]]

\* C7: a file named in fixed_files is never passed to process_file, opened
\* or changed, and the excluded files do not count toward the five.
C7_Exclusion ==
  /\ \A n \in Range(dir) \cap fixed_files :
       /\ n \notin openedW
       /\ n \notin openedR
       /\ n \notin Called
       /\ disk[n] = startDisk[n]
  /\ pc = "done" =>
       \/ Len(calls) = 5
       \/ Len(calls) =
            Cardinality({n \in Range(dir) :
                           n[Len(n)] = TestSuffix /\ n \notin fixed_files})

C7_Witness ==
  /\ pc = "done"
  /\ Len(calls) = 5
  /\ QuotesName \in Range(dir)
  /\ ~HasMarker(disk[QuotesName])
  /\ IndexIn(dir, QuotesName) < IndexIn(dir, CalledName(5))

\* C8 as stated: the text without a semicolon is mapped to the quoted
\* text, compared up to white space.
C8_AsStated ==
  (fn = "fix_test_expectations" /\ arg = ExpectCall(Qualified, FilterX, ")"))
    => NoWhiteSpace(res) = NoWhiteSpace(ExpectPost(<<" ">>, FilterX, <<"}", ")">>))

\* C8 amended: the text ended by ");" is mapped to the post assertion with
\* "{", a line break and eight spaces before "filter:", and its last "} });"
\* is "});"; without the ";" both closing braces stay.
C8_Amended ==
  fn = "fix_test_expectations" =>
    \A x \in {FilterX, FilterObject} :
      /\ arg = ExpectCall(Qualified, x, ");")
           => res = ExpectPost(<<"\n        ">>, x, <<"}", ");">>)
      /\ arg = ExpectCall(Qualified, x, ")")
           => res = ExpectPost(<<"\n        ">>, x, <<"}", " ", "}", ")">>)

C8_Witness ==
  /\ fn = "fix_test_expectations"
  /\ arg = ExpectCall(Qualified, FilterX, ");")
  /\ res = ExpectPost(<<"\n        ">>, FilterX, <<"}", ");">>)

\* C9: the get-mock resolving to a list becomes the post-mock wrapping
\* createMockItemsResponse(mockData), the empty list becomes the same with
\* [], and a text that no response pattern matches is returned unchanged.
C9_ListResponses ==
  fn = "fix_mock_responses" =>
    /\ arg = MockCall(Bare, "get", <<" items: mockData ">>, RestStatus200)
         => res = PostItems("mockData")
    /\ arg = MockCall(Bare, "get", <<" items: [] ">>, RestStatus200)
         => res = PostItems("[]")
    /\ (\A k \in 1..Len(MockRules) : ~MatchesSomewhere(MockRules[k].pat, arg))
         => res = arg

C9_Witness ==
  /\ fn = "fix_mock_responses"
  /\ arg = MockCall(Bare, "get", <<" items: [] ">>, RestStatus200)
  /\ res = PostItems("[]")

\* C10: a file read with only bare mockAxios. references is never written
\* with setup.setup.mockAxios. in it.
C10_SingleQualifier ==
  \A n \in DOMAIN returned \cap openedW :
    AllBare(readContent[n]) => ~DoublyQualified(returned[n])

====
